---- MODULE Spec2Model ----
(***************************************************************************)
(* A model of the Caresse wedding-invitation page (CaresseInvite.tsx and   *)
(* its near-duplicate variant): the gallery / lightbox controller, the     *)
(* SmartImage fallback cursor, the photo URL helpers, and the shell: the   *)
(* language with its storage and the lightbox's keydown listener.          *)
(*                                                                         *)
(* React state is modelled as variables; every event handler is one        *)
(* action.  A component instance's useState cell lives exactly as long as  *)
(* the instance stays mounted at the same place with the same key.         *)
(***************************************************************************)
EXTENDS Integers, Sequences, FiniteSets, TLC

(***************************************************************************)
(* Bounds of the model.                                                    *)
(***************************************************************************)
\* longest catalog explored (one more than a page, so that "load more" shows)
MaxPhotos == 13
\* longest sources list of a photo of the page model
MaxSources == 2
\* longest catalog of the language and storage model
MaxLangPhotos == 2

(***************************************************************************)
(* Program constants.                                                      *)
(***************************************************************************)
\* useState(12)
InitialVisible == 12
\* Math.min(v + 12, photos.length)
PageSize == 12

Min(a, b) == IF a <= b THEN a ELSE b

(***************************************************************************)
(* The page state.                                                         *)
(*   photos        the catalog (fixed after construction)                  *)
(*   visibleCount  useState(12)                                            *)
(*   lightboxIndex useState<number | null>(null): <<>> is null, <<i>> is i *)
(*   cursor        SmartImage's useState(0), one cell per mounted instance *)
(*   errors        history: the error events each mounted instance has had *)
(*   img           a SmartImage on its own: its props, its cell, its count *)
(*                 of error events                                         *)
(* The helpers on their own:                                               *)
(*   input         a URL string given to expandSources and photoKeyFromUrl *)
(*   expanded      what the two expandSources return for it                *)
(*   key           what photoKeyFromUrl returns for it                     *)
(*   raw, built    a record list and whether photos was built from it      *)
(* The shell:                                                              *)
(*   lang          useState<Lang>("en")                                    *)
(*   localStorage  the value stored under "wedding_lang"                   *)
(*   throws        the storage operations that throw on every call         *)
(*   io            the storage calls made by the last handler, in order    *)
(*   boot          the startup: its phase, the setLang queued by the first *)
(*                 effect, and the language the reloaded session had       *)
(*   listeners     the keydown listeners installed on window               *)
(***************************************************************************)
VARIABLES photos, visibleCount, lightboxIndex, cursor, errors, img,
          input, expanded, key, raw, built,
          lang, localStorage, throws, io, boot, listeners, nav

pageVars == <<photos, visibleCount, lightboxIndex, cursor, errors>>
auxVars == <<img, input, expanded, key, raw, built>>
shellVars == <<lang, localStorage, throws, io, boot, listeners, nav>>
vars == <<photos, visibleCount, lightboxIndex, cursor, errors, img,
          input, expanded, key, raw, built,
          lang, localStorage, throws, io, boot, listeners, nav>>

None == <<>>
Open(i) == <<i>>

\* the value of a JavaScript remainder by zero; no index equals it
NaN == 0 - 999

\* JavaScript's %: the remainder takes the sign of the dividend
JsRem(a, n) ==
  IF n = 0 THEN NaN
  ELSE IF a >= 0 THEN a % n
  ELSE 0 - ((0 - a) % n)

(***************************************************************************)
(* Catalogs of the page model.  A photo is [id, title, sources]; the k-th  *)
(* photo's j-th candidate is an opaque string.  Shape "same" gives every   *)
(* photo MaxSources candidates (the baked-in lists are of this kind);      *)
(* shape "mixed" gives the photos 1, 2, .., MaxSources, 0, 1, .. of them.  *)
(***************************************************************************)
SourceName(k, j) == "p" \o ToString(k) \o "/" \o ToString(j)

SourceCount(shape, k) ==
  IF shape = "same" THEN MaxSources ELSE (k + 1) % (MaxSources + 1)

MakePhoto(shape, k) ==
  [ id      |-> k,
    title   |-> "photo " \o ToString(k),
    sources |-> [j \in 1..SourceCount(shape, k) |-> SourceName(k, j - 1)] ]

Catalogs ==
  { [k \in 1..n |-> MakePhoto(shape, k - 1)] :
      n \in 0..MaxPhotos, shape \in {"same", "mixed"} }

\* photos.slice(0, Math.min(visibleCount, photos.length))
visiblePhotos == SubSeq(photos, 1, Min(visibleCount, Len(photos)))

(***************************************************************************)
(* SmartImage.                                                             *)
(***************************************************************************)
\* svgPlaceholderDataUri(label): a data URI computed from the label alone
svgPlaceholderDataUri(label) == "data:image/svg+xml;charset=utf-8," \o label

\* const src = i < sources.length ? sources[i] : svgPlaceholderDataUri(alt)
src(i, sources, alt) ==
  IF i < Len(sources) THEN sources[i + 1] ELSE svgPlaceholderDataUri(alt)

\* a plausible slip: the cursor is clamped to the last index, not the length
onErrorClampLast(v, sources) == IF v + 1 < Len(sources) THEN v + 1 ELSE v

\* onError={() => setI((v) => (v + 1 <= sources.length ? v + 1 : v))}
onError(v, sources) == IF v + 1 <= Len(sources) THEN v + 1 ELSE v

(***************************************************************************)
(* The image instances of the page: <<kind, k>>.  Gallery tiles and the    *)
(* featured thumbnails are keyed by photo id, the two hero images and the  *)
(* lightbox image are not keyed.                                           *)
(***************************************************************************)
Hero == <<"hero", 0>>
HeroB == <<"heroB", 0>>
Thumb(k) == <<"thumb", k>>
Tile(k) == <<"tile", k>>
LightboxImage == <<"lightbox", 0>>

\* the instances rendered for a visible slice of length n and a lightbox state
Mounted(n, li) ==
  {Hero, HeroB}
    \cup { Thumb(k) : k \in { x \in 2..4 : x < n } }
    \cup { Tile(k) : k \in 0..(n - 1) }
    \cup (IF li # None THEN {LightboxImage} ELSE {})

\* the hero images fall back to one placeholder source when the slice is short
FallbackSources == <<svgPlaceholderDataUri("Caresse")>>
FallbackAlt == "Caresse Bodrum"

\* const heroB = visiblePhotos[6] ?? visiblePhotos[1]
HeroBIndex(n) == IF 6 < n THEN 6 ELSE IF 1 < n THEN 1 ELSE NaN

\* the visible index of the photo an instance is rendered with (NaN: none)
PhotoOf(inst, vis, li) ==
  CASE inst = Hero -> IF 0 < Len(vis) THEN 0 ELSE NaN
    [] inst = HeroB -> HeroBIndex(Len(vis))
    [] inst = LightboxImage -> IF li # None THEN li[1] ELSE NaN
    [] OTHER -> inst[2]

\* the sources and alt props an instance is rendered with
SourcesOf(inst, vis, li) ==
  LET k == PhotoOf(inst, vis, li)
  IN IF k \in 0..(Len(vis) - 1) THEN vis[k + 1].sources ELSE FallbackSources

AltOf(inst, vis, li) ==
  LET k == PhotoOf(inst, vis, li)
  IN IF k \in 0..(Len(vis) - 1) THEN vis[k + 1].title ELSE FallbackAlt

\* what an instance displays
Displayed(inst, vis, li, cur) ==
  src(cur[inst], SourcesOf(inst, vis, li), AltOf(inst, vis, li))

\* React keeps the state cell of an instance that stays mounted and gives a
\* newly mounted one useState(0)
Remount(cur, n, li) ==
  [inst \in Mounted(n, li) |-> IF inst \in DOMAIN cur THEN cur[inst] ELSE 0]

\* no error event is delivered to an instance that has had MaxErrors of them
MaxErrors == MaxSources + 1

(***************************************************************************)
(* Gallery & lightbox controller.                                          *)
(***************************************************************************)
\* a plausible slip: no + length before the remainder
prevNoWrap(i, n) == IF i = None THEN None ELSE Open(JsRem(i[1] - 1, n))

\* setLightboxIndex((i) => (i === null ? null : (i - 1 + n) % n))
prev(i, n) == IF i = None THEN None ELSE Open(JsRem(i[1] - 1 + n, n))

\* a plausible slip: no remainder at the end of the slice
nextNoWrap(i, n) == IF i = None THEN None ELSE Open(i[1] + 1)

\* setLightboxIndex((i) => (i === null ? null : (i + 1) % n))
next(i, n) == IF i = None THEN None ELSE Open(JsRem(i[1] + 1, n))

(***************************************************************************)
(* The shell: language, its storage, the lightbox's keydown listener.      *)
(***************************************************************************)
\* type Lang = "en" | "fa"
Langs == {"en", "fa"}

\* what getItem returns for a key that was never set
Absent == "(null)"

\* the values the key may hold when the page starts
StoredValues == {Absent, "en", "fa", "tr"}

\* a plausible slip: the saved language is read and never applied
savedLangIgnored(stored, thr) == <<>>

\* a plausible slip: the read is not guarded, a throwing get still yields
\* the stored value
savedLangUnguarded(stored, thr) ==
  IF stored = "fa" \/ stored = "en" THEN <<stored>> ELSE <<>>

\* first effect: try { const saved = getItem("wedding_lang");
\*   if (saved === "fa" || saved === "en") setLang(saved); } catch {}
\* the setLang calls it makes
savedLang(stored, thr) ==
  IF "get" \in thr THEN <<>>
  ELSE IF stored = "fa" \/ stored = "en" THEN <<stored>> ELSE <<>>

\* second effect: try { setItem("wedding_lang", lang) } catch {}
\* the value stored afterwards
setItem(stored, thr, value) == IF "set" \in thr THEN stored ELSE value

\* onClick={() => setLang(lang === "en" ? "fa" : "en")}
toggled(l) == IF l = "en" THEN "fa" ELSE "en"

\* a plausible slip: the effect returns no cleanup
RelistenNoCleanup(n, wasOpen, isOpen) == n + (IF isOpen THEN 1 ELSE 0)

\* the Lightbox effect around a render of the page: the cleanup of the
\* lightbox that was mounted removes its listener, the effect of the one
\* mounted now adds one
Relisten(n, wasOpen, isOpen) ==
  n - (IF wasOpen THEN 1 ELSE 0) + (IF isOpen THEN 1 ELSE 0)

Keys == {"Escape", "ArrowLeft", "ArrowRight", "Enter"}

\* a plausible slip: the arrow keys are bound the wrong way round
onKeySwapped(k, i, n) ==
  IF k = "Escape" THEN None
  ELSE IF k = "ArrowLeft" THEN next(i, n)
  ELSE IF k = "ArrowRight" THEN prev(i, n)
  ELSE i

\* const onKey = (e) => { if (e.key === "Escape") onClose();
\*   if (e.key === "ArrowLeft") onPrev(); if (e.key === "ArrowRight") onNext(); }
\* the lightboxIndex after one listener has handled the key
onKey(k, i, n) ==
  IF k = "Escape" THEN None
  ELSE IF k = "ArrowLeft" THEN prev(i, n)
  ELSE IF k = "ArrowRight" THEN next(i, n)
  ELSE i

RECURSIVE Dispatch(_, _, _, _)
\* the lightboxIndex after each of m installed listeners has handled the key
Dispatch(m, k, i, n) ==
  IF m = 0 THEN i ELSE Dispatch(m - 1, k, onKey(k, i, n), n)

\* events are handled once the startup has settled
Ready == boot.phase = "ready"

\* the ids of Nav's links, and of the elements of the document
LinkIds ==
  {"venue", "bodrum", "istanbul", "weekend", "notes", "travel", "gallery"}
DomIds == LinkIds \cup {"top", "site-nav"}

\* no scrollTo call yet, no animation frame requested
NoScroll == "(none)"

\* the page opened without a fragment
NoNav == [hash |-> "", scrolledTo |-> NoScroll, frame |-> NoScroll]

\* a plausible slip: the element is not looked up before it is used
scrollToIdUnguarded(n, id) == [n EXCEPT !.hash = id, !.scrolledTo = id]

\* Nav's scrollToId(id): hash is location.hash without "#", scrolledTo the
\* element of the last window.scrollTo
scrollToId(n, id) ==
  IF id = "top" THEN [n EXCEPT !.hash = "top", !.scrolledTo = "top"]
  ELSE IF id \notin DomIds THEN n
  ELSE [n EXCEPT !.hash = id, !.scrolledTo = id]

\* the third effect of the first render: requestAnimationFrame(scrollTo)
\* where the fragment names an element other than "top"
hashEffect(n) ==
  IF n.hash = "" \/ n.hash = "top" THEN n
  ELSE IF n.hash \notin DomIds THEN n
  ELSE [n EXCEPT !.frame = n.hash]

\* a handler of the page that touches neither the language nor its storage:
\* the page re-renders and the Lightbox effect runs again
Rerender ==
  /\ io' = <<>>
  /\ listeners' = Relisten(listeners, lightboxIndex # None, lightboxIndex' # None)
  /\ UNCHANGED <<lang, localStorage, throws, boot, nav>>

\* the shell is not rendered in the models of the helpers
NoShell ==
  /\ lang = "en"
  /\ localStorage = Absent
  /\ throws = {}
  /\ io = <<>>
  /\ boot = [phase |-> "ready", queued |-> <<>>, from |-> "none"]
  /\ listeners = 0
  /\ nav = NoNav

\* the standalone SmartImage is not rendered in the page model
NoImage == [sources |-> <<>>, alt |-> "", i |-> 0, errors |-> 0]

NotExpanded == [done |-> FALSE, sources |-> <<>>, sourcesAlt |-> <<>>]
NoKey == [done |-> FALSE, value |-> <<>>]

\* the helpers are not run on their own in the page model
NoHelpers ==
  /\ input = <<>>
  /\ expanded = NotExpanded
  /\ key = NoKey
  /\ raw = <<>>
  /\ built = FALSE

Init ==
  /\ photos \in Catalogs
  /\ visibleCount = InitialVisible
  /\ lightboxIndex = None
  /\ cursor = [inst \in Mounted(Min(InitialVisible, Len(photos)), None) |-> 0]
  /\ errors = [inst \in Mounted(Min(InitialVisible, Len(photos)), None) |-> 0]
  /\ img = NoImage
  /\ NoHelpers
  /\ lang = "en"
  /\ localStorage \in {Absent, "fa"}
  /\ throws = {}
  /\ io = <<>>
  /\ boot = [phase |-> "rendered", queued |-> <<>>, from |-> "none"]
  /\ listeners = 0
  /\ nav = NoNav

\* gallery tile: onClick={() => setLightboxIndex(i)}
OpenTile ==
  \E i \in 0..(Len(visiblePhotos) - 1) :
    /\ Ready
    /\ lightboxIndex' = Open(i)
    /\ cursor' = Remount(cursor, Len(visiblePhotos), lightboxIndex')
    /\ errors' = Remount(errors, Len(visiblePhotos), lightboxIndex')
    /\ Rerender
    /\ UNCHANGED <<photos, visibleCount, auxVars>>

\* a plausible slip: the thumbnail opens one past the photo it shows
OpenThumbOffByOne ==
  \E i \in 0..(Len(SubSeq(visiblePhotos, 3, Min(5, Len(visiblePhotos)))) - 1) :
    /\ Ready
    /\ lightboxIndex' = Open(i + 3)
    /\ cursor' = Remount(cursor, Len(visiblePhotos), lightboxIndex')
    /\ errors' = Remount(errors, Len(visiblePhotos), lightboxIndex')
    /\ Rerender
    /\ UNCHANGED <<photos, visibleCount, auxVars>>

\* featured thumbnail: visiblePhotos.slice(2, 5).map((p, i) => ...
\*   onClick={() => setLightboxIndex(i + 2)}
OpenThumb ==
  \E i \in 0..(Len(SubSeq(visiblePhotos, 3, Min(5, Len(visiblePhotos)))) - 1) :
    /\ Ready
    /\ lightboxIndex' = Open(i + 2)
    /\ cursor' = Remount(cursor, Len(visiblePhotos), lightboxIndex')
    /\ errors' = Remount(errors, Len(visiblePhotos), lightboxIndex')
    /\ Rerender
    /\ UNCHANGED <<photos, visibleCount, auxVars>>

\* const close = () => setLightboxIndex(null), reachable from the lightbox
Close ==
  /\ Ready
  /\ lightboxIndex # None
  /\ lightboxIndex' = None
  /\ cursor' = Remount(cursor, Len(visiblePhotos), lightboxIndex')
  /\ errors' = Remount(errors, Len(visiblePhotos), lightboxIndex')
  /\ Rerender
  /\ UNCHANGED <<photos, visibleCount, auxVars>>

\* the lightbox's Previous button and ArrowLeft
Prev ==
  /\ Ready
  /\ lightboxIndex # None
  /\ lightboxIndex' = prev(lightboxIndex, Len(visiblePhotos))
  /\ cursor' = Remount(cursor, Len(visiblePhotos), lightboxIndex')
  /\ errors' = Remount(errors, Len(visiblePhotos), lightboxIndex')
  /\ Rerender
  /\ UNCHANGED <<photos, visibleCount, auxVars>>

\* the lightbox's Next button and ArrowRight
Next_ ==
  /\ Ready
  /\ lightboxIndex # None
  /\ lightboxIndex' = next(lightboxIndex, Len(visiblePhotos))
  /\ cursor' = Remount(cursor, Len(visiblePhotos), lightboxIndex')
  /\ errors' = Remount(errors, Len(visiblePhotos), lightboxIndex')
  /\ Rerender
  /\ UNCHANGED <<photos, visibleCount, auxVars>>

\* a plausible slip: loading more photos resets the lightbox
LoadMoreClosing ==
  /\ Ready
  /\ visibleCount < Len(photos)
  /\ visibleCount' = Min(visibleCount + PageSize, Len(photos))
  /\ lightboxIndex' = None
  /\ cursor' = Remount(cursor, Min(visibleCount', Len(photos)), lightboxIndex')
  /\ errors' = Remount(errors, Min(visibleCount', Len(photos)), lightboxIndex')
  /\ UNCHANGED <<photos, auxVars>>
  /\ Rerender

\* a plausible slip: the button shows one more photo, not one more page
LoadMoreByOne ==
  /\ Ready
  /\ visibleCount < Len(photos)
  /\ visibleCount' = Min(visibleCount + 1, Len(photos))
  /\ cursor' = Remount(cursor, Min(visibleCount', Len(photos)), lightboxIndex)
  /\ errors' = Remount(errors, Min(visibleCount', Len(photos)), lightboxIndex)
  /\ UNCHANGED <<photos, lightboxIndex, auxVars>>
  /\ Rerender

\* the button is rendered only while visibleCount < photos.length
\* onClick={() => setVisibleCount((v) => Math.min(v + 12, photos.length))}
LoadMore ==
  /\ Ready
  /\ visibleCount < Len(photos)
  /\ visibleCount' = Min(visibleCount + PageSize, Len(photos))
  /\ cursor' = Remount(cursor, Min(visibleCount', Len(photos)), lightboxIndex)
  /\ errors' = Remount(errors, Min(visibleCount', Len(photos)), lightboxIndex)
  /\ UNCHANGED <<photos, lightboxIndex, auxVars>>
  /\ Rerender

\* the instances the model delivers load failures to
FailTargets ==
  {LightboxImage, Tile(0)}

\* a plausible slip: the cursor is kept per photo and not per instance, so
\* an error advances every instance that shows the photo
ImageErrorShared ==
  \E inst \in FailTargets \cap DOMAIN cursor :
    /\ Ready
    /\ errors[inst] < MaxErrors
    /\ cursor' = [j \in DOMAIN cursor |->
         IF PhotoOf(j, visiblePhotos, lightboxIndex)
              = PhotoOf(inst, visiblePhotos, lightboxIndex)
         THEN onError(cursor[j], SourcesOf(j, visiblePhotos, lightboxIndex))
         ELSE cursor[j]]
    /\ errors' = [errors EXCEPT ![inst] = @ + 1]
    /\ io' = <<>>
    /\ UNCHANGED <<photos, visibleCount, lightboxIndex, auxVars,
                   lang, localStorage, throws, boot, listeners, nav>>

\* <img onError> of one mounted instance
ImageError ==
  \E inst \in FailTargets \cap DOMAIN cursor :
    /\ Ready
    /\ errors[inst] < MaxErrors
    /\ cursor' = [cursor EXCEPT
         ![inst] = onError(@, SourcesOf(inst, visiblePhotos, lightboxIndex))]
    /\ errors' = [errors EXCEPT ![inst] = @ + 1]
    /\ io' = <<>>
    /\ UNCHANGED <<photos, visibleCount, lightboxIndex, auxVars,
                   lang, localStorage, throws, boot, listeners, nav>>

\* window "keydown" with key k: every installed listener runs
KeyDownOf(k) ==
  /\ Ready
  /\ lightboxIndex' = Dispatch(listeners, k, lightboxIndex, Len(visiblePhotos))
  /\ cursor' = Remount(cursor, Len(visiblePhotos), lightboxIndex')
  /\ errors' = Remount(errors, Len(visiblePhotos), lightboxIndex')
  /\ Rerender
  /\ UNCHANGED <<photos, visibleCount, auxVars>>

KeyDown == \E k \in Keys : KeyDownOf(k)

\* the effects of the first render, in order: the first reads the saved
\* language and queues setLang(saved), the second stores the language of
\* the first render, the third looks up the element the fragment names
MountEffects ==
  /\ boot.phase = "rendered"
  /\ LET q == savedLang(localStorage, throws)
     IN boot' = IF q # <<>> /\ q[1] # lang
                THEN [boot EXCEPT !.phase = "queued", !.queued = q]
                ELSE [boot EXCEPT !.phase = "ready"]
  /\ localStorage' = setItem(localStorage, throws, lang)
  /\ io' = <<"get", "set">>
  /\ nav' = hashEffect(nav)
  /\ UNCHANGED <<pageVars, auxVars, lang, throws, listeners>>

\* the render of the queued setLang and the second effect ([lang] changed)
Settle ==
  /\ boot.phase = "queued"
  /\ lang' = boot.queued[1]
  /\ boot' = [boot EXCEPT !.phase = "ready", !.queued = <<>>]
  /\ localStorage' = setItem(localStorage, throws, lang')
  /\ io' = <<"set">>
  /\ listeners' = Relisten(listeners, lightboxIndex # None, lightboxIndex # None)
  /\ UNCHANGED <<pageVars, auxVars, throws, nav>>

\* a plausible slip: the gallery is keyed by the language, so a toggle
\* mounts its images anew
ToggleLangRemounting ==
  /\ Ready
  /\ lang' = toggled(lang)
  /\ localStorage' = setItem(localStorage, throws, lang')
  /\ io' = <<"set">>
  /\ listeners' = Relisten(listeners, lightboxIndex # None, lightboxIndex # None)
  /\ cursor' = [inst \in DOMAIN cursor |-> 0]
  /\ UNCHANGED <<photos, visibleCount, lightboxIndex, errors, auxVars,
                 throws, boot, nav>>

\* Nav's language button, then the second effect ([lang] changed)
ToggleLang ==
  /\ Ready
  /\ lang' = toggled(lang)
  /\ localStorage' = setItem(localStorage, throws, lang')
  /\ io' = <<"set">>
  /\ listeners' = Relisten(listeners, lightboxIndex # None, lightboxIndex # None)
  /\ UNCHANGED <<pageVars, auxVars, throws, boot, nav>>

Next ==
  \/ MountEffects
  \/ Settle
  \/ ToggleLang
  \/ KeyDown
  \/ OpenTile
  \/ OpenThumb
  \/ Close
  \/ Prev
  \/ Next_
  \/ LoadMore
  \/ ImageError

Spec == Init /\ [][Next]_vars

(***************************************************************************)
(* The language and its storage: the page on a short catalog, with any     *)
(* stored value and any storage operation throwing, across reloads.        *)
(***************************************************************************)
ShortCatalogs == { c \in Catalogs : Len(c) <= MaxLangPhotos }

InitLang ==
  /\ photos \in ShortCatalogs
  /\ visibleCount = InitialVisible
  /\ lightboxIndex = None
  /\ cursor = [inst \in Mounted(Min(InitialVisible, Len(photos)), None) |-> 0]
  /\ errors = [inst \in Mounted(Min(InitialVisible, Len(photos)), None) |-> 0]
  /\ img = NoImage
  /\ NoHelpers
  /\ lang = "en"
  /\ localStorage \in StoredValues
  /\ throws \in SUBSET {"get", "set"}
  /\ io = <<>>
  /\ boot = [phase |-> "rendered", queued |-> <<>>, from |-> "none"]
  /\ listeners = 0
  /\ nav = NoNav

\* the session is reloaded: a fresh mount of the page over the same storage
Reload ==
  /\ Ready
  /\ lang' = "en"
  /\ visibleCount' = InitialVisible
  /\ lightboxIndex' = None
  /\ cursor' = [inst \in Mounted(Min(InitialVisible, Len(photos)), None) |-> 0]
  /\ errors' = [inst \in Mounted(Min(InitialVisible, Len(photos)), None) |-> 0]
  /\ io' = <<>>
  /\ boot' = [phase |-> "rendered", queued |-> <<>>, from |-> lang]
  /\ listeners' = 0
  /\ nav' = [nav EXCEPT !.scrolledTo = NoScroll, !.frame = NoScroll]
  /\ UNCHANGED <<photos, auxVars, localStorage, throws>>

NextLang ==
  \/ MountEffects
  \/ Settle
  \/ ToggleLang
  \/ Reload
  \/ OpenTile
  \/ Close
  \/ KeyDown

SpecLang == InitLang /\ [][NextLang]_vars

(***************************************************************************)
(* The page opened on a fragment, with Nav's links.                        *)
(***************************************************************************)
MaxNavPhotos == 5

\* the fragments the page is opened with
StartHashes == {"", "top", "gallery", "nowhere"}

InitNav ==
  /\ \E n \in 0..MaxNavPhotos : photos = [k \in 1..n |-> MakePhoto("same", k - 1)]
  /\ visibleCount = InitialVisible
  /\ lightboxIndex = None
  /\ cursor = [inst \in Mounted(Min(InitialVisible, Len(photos)), None) |-> 0]
  /\ errors = [inst \in Mounted(Min(InitialVisible, Len(photos)), None) |-> 0]
  /\ img = NoImage
  /\ NoHelpers
  /\ lang = "en"
  /\ localStorage \in {Absent, "fa"}
  /\ throws = {}
  /\ io = <<>>
  /\ boot = [phase |-> "rendered", queued |-> <<>>, from |-> "none"]
  /\ listeners = 0
  /\ \E h \in StartHashes : nav = [NoNav EXCEPT !.hash = h]

\* Nav: onClick={() => scrollToId("top")}, onClick={() => scrollToId(l.id)}
NavClick ==
  \E id \in LinkIds \cup {"top"} :
    /\ Ready
    /\ nav' = scrollToId(nav, id)
    /\ io' = <<>>
    /\ UNCHANGED <<pageVars, auxVars, lang, localStorage, throws, boot, listeners>>

\* the callback given to requestAnimationFrame by the third effect
AnimationFrame ==
  /\ nav.frame # NoScroll
  /\ nav' = [nav EXCEPT !.scrolledTo = nav.frame, !.frame = NoScroll]
  /\ io' = <<>>
  /\ UNCHANGED <<pageVars, auxVars, lang, localStorage, throws, boot, listeners>>

NextNav ==
  \/ MountEffects
  \/ Settle
  \/ AnimationFrame
  \/ NavClick
  \/ OpenTile
  \/ OpenThumb
  \/ Close

SpecNav == InitNav /\ [][NextNav]_vars

(***************************************************************************)
(* URL strings.  A string is a sequence of tokens, each token a piece of   *)
(* text; two strings are equal iff their token sequences are (no token is  *)
(* a concatenation of others).  An absolute URL reads                      *)
(*   "https://" host path-tokens [ "?" name value { "&" name value } ]     *)
(*   [ "#frag" ]                                                           *)
(* with a name token such as "wid=" and a value token such as "1400".      *)
(* Dot segments, ports and credentials are not in the alphabet.            *)
(***************************************************************************)
\* longest path of a URL, in tokens
MaxPathToks == 3

Scheme == "https://"
HostToks == {"cache.marriott.com", "CACHE.MARRIOTT.COM", "cache.example.com"}
\* tokens a path may start with
PathStartToks == {"/", "/is/image/", "/content/dam/"}
PathToks ==
  PathStartToks \cup
    {"marriott-renditions/", "photo", ":Wide", "%3AWide", "%3Fv", "%zz"}
Frag == "#frag"

\* the widths of expandSources, by file
Widths == <<2200, 1800, 1400, 1100, 900>>
WidthsAlt == <<2000, 1600, 1200, 900>>

Range(f) == { f[x] : x \in DOMAIN f }

\* `${wid}px:*` as written in a URL, raw and form-encoded
DownsizeRaw(w) == ToString(w) \o "px:*"
DownsizeEnc(w) == ToString(w) \o "px%3A*"
AllWidths == Range(Widths) \cup Range(WidthsAlt)

\* String.prototype.toLowerCase, token by token
toLowerCase(s) ==
  [x \in DOMAIN s |->
     CASE s[x] = "CACHE.MARRIOTT.COM" -> "cache.marriott.com"
       [] s[x] = ":Wide" -> ":wide"
       [] s[x] = ":Wide-Hor" -> ":wide-hor"
       [] s[x] = "%3AWide-Hor" -> "%3awide-hor"
       [] s[x] = "BJVLC/" -> "bjvlc/"
       [] s[x] = "%3AWide" -> "%3awide"
       [] s[x] = "%3Fv" -> "%3fv"
       [] OTHER -> s[x]]

\* the index of the first token of s that is in T, or 0
FirstIn(s, T) ==
  IF \E x \in DOMAIN s : s[x] \in T
  THEN CHOOSE x \in DOMAIN s : s[x] \in T /\ \A y \in 1..(x - 1) : s[y] \notin T
  ELSE 0

\* the index of the last token of s that is in T, or 0
LastIn(s, T) ==
  IF \E x \in DOMAIN s : s[x] \in T
  THEN CHOOSE x \in DOMAIN s :
         s[x] \in T /\ \A y \in (x + 1)..Len(s) : s[y] \notin T
  ELSE 0

\* s.split(sep)[0] where the tokens of T are those that start with sep
Before(s, T) ==
  IF FirstIn(s, T) = 0 THEN s ELSE SubSeq(s, 1, FirstIn(s, T) - 1)

\* the tokens that start with ":" and with "?"
ColonToks == {":Wide", ":wide", ":Wide-Hor", ":wide-hor"}
QuestionToks == {"?", "?v"}

\* s.split("/").pop(): the tokens of SlashEnd are those that end with "/"
SlashEnd ==
  {"/", "/is/image/", "/content/dam/", "marriott-renditions/", "prod/",
   "marriotts7prod/", "BJVLC/", "bjvlc/"}
AfterLastSlash(s) == SubSeq(s, LastIn(s, SlashEnd) + 1, Len(s))

\* the search parameters of a query: name and decoded value, in order
RECURSIVE ParseQuery(_)
ParseQuery(q) ==
  IF Len(q) < 2 THEN <<>>
  ELSE LET v == IF \E w \in AllWidths : q[2] = DownsizeEnc(w)
                THEN DownsizeRaw(CHOOSE w \in AllWidths : q[2] = DownsizeEnc(w))
                ELSE q[2]
       IN <<[name |-> q[1], value |-> v]>> \o ParseQuery(SubSeq(q, 4, Len(q)))

\* the application/x-www-form-urlencoded serialisation: ":" becomes "%3A"
RECURSIVE SerializeQuery(_)
SerializeQuery(ps) ==
  IF ps = <<>> THEN <<>>
  ELSE LET v == IF \E w \in AllWidths : ps[1].value = DownsizeRaw(w)
                THEN DownsizeEnc(CHOOSE w \in AllWidths : ps[1].value = DownsizeRaw(w))
                ELSE ps[1].value
       IN <<ps[1].name, v>> \o
            (IF Len(ps) > 1 THEN <<"&">> ELSE <<>>) \o SerializeQuery(Tail(ps))

\* new URL(url): ok is FALSE where the constructor throws.  The strings of
\* the model that start with a scheme and a host continue with a path start,
\* "?" or "#frag", so the host is the second token.
ParseURL(url) ==
  IF ~(Len(url) >= 2 /\ url[1] = Scheme /\ url[2] \in HostToks)
  THEN [ok |-> FALSE]
  ELSE LET rest == SubSeq(url, 3, Len(url))
           noFrag == Before(rest, {Frag})
           path == Before(noFrag, {"?"})
           query == SubSeq(noFrag, Len(path) + 2, Len(noFrag))
       IN [ ok           |-> TRUE,
            hostname     |-> toLowerCase(<<url[2]>>)[1],
            pathname     |-> IF path = <<>> THEN <<"/">> ELSE path,
            searchParams |-> ParseQuery(query),
            hash         |-> SubSeq(rest, Len(noFrag) + 1, Len(rest)) ]

\* URLSearchParams.set(name, value): the first pair of that name gets the
\* value and the others are removed; without one the pair is appended
KeepFirstNamed(ps, name) ==
  LET first == FirstIn([y \in DOMAIN ps |-> ps[y].name], {name})
      F[x \in 0..Len(ps)] ==
        IF x = 0 THEN <<>>
        ELSE IF ps[x].name # name \/ x = first THEN Append(F[x - 1], ps[x])
        ELSE F[x - 1]
  IN F[Len(ps)]

searchParamsSet(ps, name, value) ==
  IF \E x \in DOMAIN ps : ps[x].name = name
  THEN LET first == FirstIn([y \in DOMAIN ps |-> ps[y].name], {name})
       IN KeepFirstNamed([ps EXCEPT ![first].value = value], name)
  ELSE Append(ps, [name |-> name, value |-> value])

\* URL.prototype.toString
URLtoString(u) ==
  <<Scheme, u.hostname>> \o u.pathname
    \o (IF u.searchParams # <<>> THEN <<"?">> \o SerializeQuery(u.searchParams)
        ELSE <<>>)
    \o u.hash

\* a plausible slip: the host is not looked at
IsMarriottHostAny(hostname) == TRUE

\* String.prototype.includes on a hostname
IsMarriottHost(hostname) == hostname = "cache.marriott.com"

\* pathname.includes("/is/image/")
IsImageServicePath(pathname) == \E x \in DOMAIN pathname : pathname[x] = "/is/image/"

\* pathname.includes("/content/dam/marriott-renditions/")
IsRenditionsPath(pathname) ==
  \E x \in 1..(Len(pathname) - 1) :
    pathname[x] = "/content/dam/" /\ pathname[x + 1] = "marriott-renditions/"

\* the URL with wid and fit=constrain set
ImageServiceSized(u, wid) ==
  URLtoString([u EXCEPT !.searchParams =
    searchParamsSet(searchParamsSet(@, "wid=", ToString(wid)), "fit=", "constrain")])

\* the URL with downsize, output-quality and interpolation set
RenditionSized(u, wid) ==
  URLtoString([u EXCEPT !.searchParams =
    searchParamsSet(
      searchParamsSet(
        searchParamsSet(@, "downsize=", DownsizeRaw(wid)),
        "output-quality=", "86"),
      "interpolation=", "progressive-bilinear")])

\* a plausible slip: the renditions rule is tried first
smartUrlSizingRenditionsFirst(url, wid) ==
  LET u == ParseURL(url)
  IN IF ~u.ok THEN url
     ELSE IF ~IsMarriottHost(u.hostname) THEN url
     ELSE IF IsRenditionsPath(u.pathname) THEN RenditionSized(u, wid)
     ELSE IF IsImageServicePath(u.pathname) THEN ImageServiceSized(u, wid)
     ELSE url

\* function smartUrlSizing(url, wid)   (CaresseInvite.tsx)
smartUrlSizing(url, wid) ==
  LET u == ParseURL(url)
  IN IF ~u.ok THEN url
     ELSE IF ~IsMarriottHost(u.hostname) THEN url
     ELSE IF IsImageServicePath(u.pathname) THEN ImageServiceSized(u, wid)
     ELSE IF IsRenditionsPath(u.pathname) THEN RenditionSized(u, wid)
     ELSE url

\* function withMarriottSizing(url, wid)   (the other variant)
withMarriottSizing(url, wid) ==
  LET u == ParseURL(url)
  IN IF ~u.ok THEN url
     ELSE IF IsMarriottHost(u.hostname) /\ IsImageServicePath(u.pathname)
       THEN ImageServiceSized(u, wid)
     ELSE IF IsMarriottHost(u.hostname) /\ IsRenditionsPath(u.pathname)
       THEN RenditionSized(u, wid)
     ELSE url

\* a plausible slip: the candidates are collected in an array, not a Set
pushNoDedup(s, u) == IF u = <<>> THEN s ELSE Append(s, u)

\* const push = (u) => u && s.add(u): a Set keeps first insertions in order
push(s, u) == IF u = <<>> \/ u \in Range(s) THEN s ELSE Append(s, u)

\* function expandSources(primary)   (CaresseInvite.tsx)
expandSources(primary) ==
  LET F[x \in 0..Len(Widths)] ==
        IF x = 0 THEN <<>> ELSE push(F[x - 1], smartUrlSizing(primary, Widths[x]))
  IN push(F[Len(Widths)], primary)

\* function expandSources(primary)   (the other variant)
expandSourcesAlt(primary) ==
  LET F[x \in 0..Len(WidthsAlt)] ==
        IF x = 0 THEN <<>>
        ELSE push(F[x - 1], withMarriottSizing(primary, WidthsAlt[x]))
  IN push(F[Len(WidthsAlt)], primary)

\* the arguments of the push calls of expandSources, in program order:
\* one sized URL for each width, then the primary URL
Candidates(primary) ==
  LET F[x \in 0..Len(Widths)] ==
        IF x = 0 THEN <<>>
        ELSE Append(F[x - 1], smartUrlSizing(primary, Widths[x]))
  IN Append(F[Len(Widths)], primary)

CandidatesAlt(primary) ==
  LET F[x \in 0..Len(WidthsAlt)] ==
        IF x = 0 THEN <<>>
        ELSE Append(F[x - 1], withMarriottSizing(primary, WidthsAlt[x]))
  IN Append(F[Len(WidthsAlt)], primary)

\* decodeURIComponent(pathname): throws on a malformed escape
DecodeThrows(pathname) == \E x \in DOMAIN pathname : pathname[x] = "%zz"

decodeURIComponent(pathname) ==
  [x \in DOMAIN pathname |->
     CASE pathname[x] = "%3AWide" -> ":Wide"
       [] pathname[x] = "%3AWide-Hor" -> ":Wide-Hor"
       [] pathname[x] = "%3Fv" -> "?v"
       [] OTHER -> pathname[x]]

\* the outcome of a call that ends with an exception
Thrown == <<"(exception)">>

\* a plausible slip: the body is not wrapped in try / catch
KeyUncaught(url) == Thrown

\* url.split("?")[0].toLowerCase()
KeyFallback(url) == toLowerCase(Before(url, QuestionToks))

\* function photoKeyFromUrl(url)
photoKeyFromUrl(url) ==
  LET u == ParseURL(url)
  IN IF ~u.ok \/ DecodeThrows(u.pathname) THEN KeyFallback(url)
     ELSE LET path == toLowerCase(decodeURIComponent(u.pathname))
          IN IF IsImageServicePath(path)
             THEN LET afterFirst == SubSeq(path, FirstIn(path, {"/is/image/"}) + 1, Len(path))
                      file == Before(afterFirst, {"/is/image/"})
                      tail == AfterLastSlash(file)
                  IN Before(Before(tail, ColonToks), QuestionToks)
             ELSE IF \E x \in DOMAIN path : path[x] = "/content/dam/"
             THEN Before(AfterLastSlash(path), QuestionToks)
             ELSE <<u.hostname>> \o path

(***************************************************************************)
(* A SmartImage on its own: any sources list, error events only.           *)
(***************************************************************************)
\* longest sources list of the standalone SmartImage
MaxImgSources == 3

SourceNames == {"bad1", "bad2", "good"}

SourceLists ==
  UNION { [1..n -> SourceNames] : n \in 0..MaxImgSources }

InitImage ==
  /\ photos = <<>>
  /\ visibleCount = InitialVisible
  /\ lightboxIndex = None
  /\ cursor = [inst \in Mounted(0, None) |-> 0]
  /\ errors = [inst \in Mounted(0, None) |-> 0]
  /\ \E l \in SourceLists : img = [sources |-> l, alt |-> "alt", i |-> 0, errors |-> 0]
  /\ NoHelpers
  /\ NoShell

\* <img onError> of the standalone SmartImage
ImgError ==
  /\ img.errors < MaxImgSources + 2
  /\ img' = [img EXCEPT !.i = onError(@, img.sources), !.errors = @ + 1]
  /\ UNCHANGED <<pageVars, input, expanded, key, raw, built, shellVars>>

NextImage == ImgError

SpecImage == InitImage /\ [][NextImage]_vars

ImgDisplayed == src(img.i, img.sources, img.alt)

(***************************************************************************)
(* The URL strings given to the helpers.                                   *)
(***************************************************************************)
Paths ==
  {<<>>} \cup
    UNION { { <<a>> \o r : a \in PathStartToks, r \in [1..(n - 1) -> PathToks] } :
              n \in 1..MaxPathToks }

Sizing1(w) == <<"wid=", ToString(w), "&", "fit=", "constrain">>
Sizing2(v) ==
  <<"downsize=", v, "&", "output-quality=", "86",
    "&", "interpolation=", "progressive-bilinear">>

\* what follows the path: no query, a foreign parameter, sizing parameters
\* as the two sizing rules write them, in another order, doubled, and not
\* encoded; and a fragment, alone and after a query
Tails ==
  { <<>>,
    <<"?", "x=", "1">>,
    <<"?", "wid=", "1400">>,
    <<"?">> \o Sizing1(1400),
    <<"?">> \o Sizing1(1600),
    <<"?", "fit=", "constrain", "&", "wid=", "1400">>,
    <<"?", "wid=", "900", "&", "x=", "1", "&", "wid=", "1400">>,
    <<"?">> \o Sizing2(DownsizeEnc(1400)),
    <<"?">> \o Sizing2(DownsizeEnc(1600)),
    <<"?">> \o Sizing2(DownsizeRaw(1400)),
    <<Frag>>,
    <<"?">> \o Sizing1(1400) \o <<Frag>> }

AbsoluteUrls ==
  { <<Scheme, h>> \o p \o t : h \in HostToks, p \in Paths, t \in Tails }

\* strings new URL() rejects: the empty string and relative references
MalformedUrls ==
  { <<>>, <<"photo">>, <<"/", "photo">>, <<"%3AWide">>,
    <<"photo", "?", "wid=", "1400">> }

\* "https://<host>/is/image/prod/photo-123:Wide-Hor"
ScenarioUrl(host) ==
  <<Scheme, host, "/is/image/", "prod/", "photo-123", ":Wide-Hor">>

Urls ==
  AbsoluteUrls \cup MalformedUrls \cup { ScenarioUrl(h) : h \in HostToks }

InitUrl ==
  /\ photos = <<>>
  /\ visibleCount = InitialVisible
  /\ lightboxIndex = None
  /\ cursor = [inst \in Mounted(0, None) |-> 0]
  /\ errors = [inst \in Mounted(0, None) |-> 0]
  /\ img = NoImage
  /\ input \in Urls
  /\ expanded = NotExpanded
  /\ key = NoKey
  /\ raw = <<>>
  /\ built = FALSE
  /\ NoShell

\* expandSources(input), in both files
ExpandSources ==
  /\ ~expanded.done
  /\ expanded' = [done |-> TRUE,
                  sources |-> expandSources(input),
                  sourcesAlt |-> expandSourcesAlt(input)]
  /\ UNCHANGED <<pageVars, img, input, key, raw, built, shellVars>>

\* photoKeyFromUrl(input)
PhotoKey ==
  /\ ~key.done
  /\ key' = [done |-> TRUE, value |-> photoKeyFromUrl(input)]
  /\ UNCHANGED <<pageVars, img, input, expanded, raw, built, shellVars>>

NextUrl == ExpandSources \/ PhotoKey

SpecUrl == InitUrl /\ [][NextUrl]_vars

(***************************************************************************)
(* The Photo Catalog Builder on its own: any short record list.            *)
(***************************************************************************)
\* longest record list given to the builder
MaxRecords == 3

\* the canonical URLs of the records: one asset in several sizes and under
\* several hosts and rules, another asset, a URL with an empty key, a
\* relative reference and the empty string
RecordUrls ==
  { <<Scheme, "cache.marriott.com", "/is/image/", "photo", ":Wide">>,
    <<Scheme, "cache.marriott.com", "/is/image/", "photo", "%3AWide">> \o <<"?">> \o Sizing1(1400),
    <<Scheme, "cache.example.com", "/is/image/", "photo", "?", "wid=", "900">>,
    <<Scheme, "cache.marriott.com", "/content/dam/", "marriott-renditions/", "photo">>,
    <<Scheme, "cache.marriott.com", "/is/image/", "pool", ":Wide">>,
    <<Scheme, "cache.example.com", "/", "photo">>,
    <<Scheme, "cache.marriott.com", "/is/image/">>,
    <<"photo">>,
    <<>> }

RecordId(x) == <<"id" \o ToString(x)>>

\* the record lists: unique ids, any canonical URLs
RecordLists ==
  UNION { { [x \in 1..n |-> [id |-> RecordId(x), title |-> "t" \o ToString(x),
                             tag |-> "", primary |-> us[x]]] :
              us \in [1..n -> RecordUrls] } :
          n \in 0..MaxRecords }

\* built.map: sources: expandSources(r.primary)
Expanded(records) ==
  [x \in DOMAIN records |->
     [id |-> records[x].id, title |-> records[x].title, tag |-> records[x].tag,
      sources |-> expandSources(records[x].primary)]]

\* const key = photoKeyFromUrl(p.sources[0] ?? p.id)
PhotoKeyOf(p) ==
  photoKeyFromUrl(IF p.sources # <<>> THEN p.sources[1] ELSE p.id)

\* a plausible slip: the loop forgets seen.add(key)
BuildPhotosNoSeen(records) ==
  LET b == Expanded(records)
      F[x \in 0..Len(b)] ==
        IF x = 0 THEN <<>>
        ELSE IF PhotoKeyOf(b[x]) = <<>> THEN F[x - 1] ELSE Append(F[x - 1], b[x])
  IN F[Len(b)]

\* the photos useMemo: for (const p of built) { if (!key || seen.has(key))
\* continue; seen.add(key); out.push(p); }
BuildPhotos(records) ==
  LET b == Expanded(records)
      F[x \in 0..Len(b)] ==
        IF x = 0 THEN [seen |-> {}, out |-> <<>>]
        ELSE LET k == PhotoKeyOf(b[x])
                 was == F[x - 1]
             IN IF k = <<>> \/ k \in was.seen THEN was
                ELSE [seen |-> was.seen \cup {k}, out |-> Append(was.out, b[x])]
  IN F[Len(b)].out

InitCatalog ==
  /\ photos = <<>>
  /\ visibleCount = InitialVisible
  /\ lightboxIndex = None
  /\ cursor = [inst \in Mounted(0, None) |-> 0]
  /\ errors = [inst \in Mounted(0, None) |-> 0]
  /\ img = NoImage
  /\ input = <<>>
  /\ expanded = NotExpanded
  /\ key = NoKey
  /\ raw \in RecordLists
  /\ built = FALSE
  /\ NoShell

\* const photos = useMemo(() => { ... }, [raw])
Build ==
  /\ ~built
  /\ photos' = BuildPhotos(raw)
  /\ built' = TRUE
  /\ UNCHANGED <<visibleCount, lightboxIndex, cursor, errors, img, input,
                 expanded, key, raw, shellVars>>

NextCatalog == Build

SpecCatalog == InitCatalog /\ [][NextCatalog]_vars

(***************************************************************************)
(* The page on the record lists of the two files.                          *)
(***************************************************************************)
\* "https://cache.marriott.com/is/image/marriotts7prod/<name>%3AWide-Hor"
ImageServiceUrl(name) ==
  <<Scheme, "cache.marriott.com", "/is/image/", "marriotts7prod/", name,
    "%3AWide-Hor">>

\* "https://cache.marriott.com/content/dam/marriott-renditions/BJVLC/<file>"
RenditionUrl(file) ==
  <<Scheme, "cache.marriott.com", "/content/dam/", "marriott-renditions/",
    "BJVLC/", file>>

Record(id, title, tag, primary) ==
  [id |-> <<id>>, title |-> title, tag |-> tag, primary |-> primary]

\* const raw   (CaresseInvite.tsx; the bullet of a tag is written "|")
BakedRaw ==
  << Record("drone-bay-1", "The private bay: Caresse from above",
            "Aerial | Bay", ImageServiceUrl("lc-bjvlc-drone-view-23060")),
     Record("drone-resort-2", "Aegean shoreline panorama",
            "Aerial | Panorama", ImageServiceUrl("lc-bjvlc-drone-view-37065")),
     Record("hotel-exterior", "Resort exterior",
            "Resort", ImageServiceUrl("lc-bjvlc-hotel-exterior-11389")),
     Record("beach-hero", "Turquoise beach day",
            "Beach", RenditionUrl("bjvlc-caresse-beach-6997-hor-wide.jpg")),
     Record("private-beach", "Private beach & teak decks",
            "Beach | Deck", RenditionUrl("bjvlc-private-beach-9546-hor-wide.jpg")),
     Record("cabanas", "Cabanas & daybeds",
            "Beach | Cabanas", RenditionUrl("bjvlc-cabanas-9527-hor-wide.jpg")),
     Record("pool-main", "Infinity pool above the shoreline",
            "Pool", RenditionUrl("bjvlc-pool-9526-hor-wide.jpg")),
     Record("sunset-lounge", "Sunset Lounge",
            "Sunset", RenditionUrl("bjvlc-sunset-lounge-9529-hor-wide.jpg")),
     Record("glass-restaurant", "Glass Restaurant terrace",
            "Dining", RenditionUrl("bjvlc-glass-restaurant-9570-hor-wide.jpg")),
     Record("buddha-bar", "Buddha-Bar Beach Bodrum",
            "Beach Club", RenditionUrl("bjvlc-buddha-restaurant-1797-hor-wide.jpg")),
     Record("spa", "Spa Caresse",
            "Wellness", RenditionUrl("bjvlc-spa-caresse-9616-hor-wide.jpg")),
     Record("indoor-pool", "Indoor pool",
            "Wellness", ImageServiceUrl("bjvlc-indoor-pool-9613")) >>

\* const raw   (the other variant)
BakedRawAlt ==
  << Record("drone-bay-1", "The private bay: Caresse from above",
            "Aerial | Bay", ImageServiceUrl("lc-bjvlc-drone-view-23060")),
     Record("drone-resort-2", "Aegean shoreline panorama",
            "Aerial | Panorama", ImageServiceUrl("lc-bjvlc-drone-view-37065")),
     Record("hotel-exterior", "Resort exterior",
            "Resort", ImageServiceUrl("lc-bjvlc-hotel-exterior-11389")),
     Record("beach-hero", "Turquoise beach day",
            "Beach", RenditionUrl("bjvlc-caresse-beach-6997-hor-wide.jpg")),
     Record("private-beach", "Private beach & teak decks",
            "Beach | Deck", RenditionUrl("bjvlc-private-beach-9546-hor-wide.jpg")),
     Record("deck-wide", "Signature decks on the waterline",
            "Deck", ImageServiceUrl("lc-bjvlc-deck-35144")),
     Record("cabanas", "Cabanas & daybeds",
            "Beach | Cabanas", RenditionUrl("bjvlc-cabanas-9527-hor-wide.jpg")),
     Record("pool-main", "Infinity pool above the shoreline",
            "Pool", RenditionUrl("bjvlc-pool-9526-hor-wide.jpg")),
     Record("pool-alt-1", "Poolline with bay views",
            "Pool", ImageServiceUrl("lc-bjvlc-pool-28022")),
     Record("sunset-lounge", "Sunset Lounge",
            "Sunset", RenditionUrl("bjvlc-sunset-lounge-9529-hor-wide.jpg")),
     Record("glass-restaurant", "Glass Restaurant terrace",
            "Dining", RenditionUrl("bjvlc-glass-restaurant-9570-hor-wide.jpg")),
     Record("glass-lounge", "Glass Lounge",
            "Cocktails", ImageServiceUrl("lc-bjvlc-glass-lounge-27060")),
     Record("buddha-bar", "Buddha-Bar Beach Bodrum",
            "Beach Club", RenditionUrl("bjvlc-buddha-restaurant-1797-hor-wide.jpg")),
     Record("la-zucca", "La Zucca Pizza Bar",
            "Dining", ImageServiceUrl("lc-bjvlc-la-zucca-pizza-bar-38504")),
     Record("spa", "Spa Caresse",
            "Wellness", RenditionUrl("bjvlc-spa-caresse-9616-hor-wide.jpg")),
     Record("spa-hot-tub", "Spa outdoor hot tub",
            "Wellness", RenditionUrl("bjvlc-spa-caresse-9610-hor-wide.jpg")),
     Record("indoor-pool", "Indoor pool",
            "Wellness", ImageServiceUrl("bjvlc-indoor-pool-9613")) >>

\* built.map and the photos useMemo of the other variant, which call its
\* expandSources
ExpandedAlt(records) ==
  [x \in DOMAIN records |->
     [id |-> records[x].id, title |-> records[x].title, tag |-> records[x].tag,
      sources |-> expandSourcesAlt(records[x].primary)]]

BuildPhotosAlt(records) ==
  LET b == ExpandedAlt(records)
      F[x \in 0..Len(b)] ==
        IF x = 0 THEN [seen |-> {}, out |-> <<>>]
        ELSE LET k == PhotoKeyOf(b[x])
                 was == F[x - 1]
             IN IF k = <<>> \/ k \in was.seen THEN was
                ELSE [seen |-> was.seen \cup {k}, out |-> Append(was.out, b[x])]
  IN F[Len(b)].out

\* the first render of either file
InitBaked ==
  /\ \/ raw = BakedRaw /\ photos = BuildPhotos(raw)
     \/ raw = BakedRawAlt /\ photos = BuildPhotosAlt(raw)
  /\ built = TRUE
  /\ visibleCount = InitialVisible
  /\ lightboxIndex = None
  /\ cursor = [inst \in Mounted(Min(InitialVisible, Len(photos)), None) |-> 0]
  /\ errors = [inst \in Mounted(Min(InitialVisible, Len(photos)), None) |-> 0]
  /\ img = NoImage
  /\ input = <<>>
  /\ expanded = NotExpanded
  /\ key = NoKey
  /\ NoShell

NextBaked ==
  \/ OpenTile
  \/ OpenThumb
  \/ Close
  \/ Prev
  \/ Next_
  \/ KeyDown
  \/ LoadMore
  \/ ImageError

SpecBaked == InitBaked /\ [][NextBaked]_vars

(***************************************************************************)
(* Properties.                                                             *)
(***************************************************************************)

\* C1: lightboxIndex is either none or a valid index of the currently
\* visible slice, after any sequence of open, close, prev, next, loadMore.
C1_LightboxIndexValid ==
  \/ lightboxIndex = None
  \/ /\ Len(lightboxIndex) = 1
     /\ lightboxIndex[1] \in 0..(Len(visiblePhotos) - 1)

\* C1 witness: after a loadMore, prev from index 0 has wrapped to the last
\* index of the grown slice.
C1_Witness ==
  /\ visibleCount > InitialVisible
  /\ lightboxIndex = Open(Len(visiblePhotos) - 1)
  /\ Len(visiblePhotos) > PageSize

\* C2 (as claimed): for any canonical URL string, parseable or malformed,
\* recognized host or not, already sized or not, expandSources returns a
\* non-empty sequence whose last element is exactly the input string.
C2_ExpandEndsWithInput ==
  expanded.done =>
    /\ expanded.sources # <<>>
    /\ expanded.sources[Len(expanded.sources)] = input
    /\ expanded.sourcesAlt # <<>>
    /\ expanded.sourcesAlt[Len(expanded.sourcesAlt)] = input

\* the key the builder files record x of the list under
RecordKey(records, x) == PhotoKeyOf(Expanded(records)[x])

\* the entries of b at the positions in S, in input order
Pick(b, S) ==
  LET F[x \in 0..Len(b)] ==
        IF x = 0 THEN <<>>
        ELSE IF x \in S THEN Append(F[x - 1], b[x]) ELSE F[x - 1]
  IN F[Len(b)]

\* the positions holding the first record of their key
FirstOfKey(records) ==
  { x \in DOMAIN records :
      \A y \in 1..(x - 1) : RecordKey(records, y) # RecordKey(records, x) }

\* C3 (as claimed): for every record list the catalog is the subsequence of
\* the input that keeps exactly the first record of each normalization key,
\* in input order.
C3_FirstRecordOfEachKey ==
  built => photos = Pick(Expanded(raw), FirstOfKey(raw))

\* C3 (amended): the catalog is the subsequence of the input that keeps
\* exactly the first record of each non-empty normalization key, in input
\* order; records whose key is empty are dropped; no two entries share a
\* key; two records of one asset in different sizes yield exactly 1 entry.
C3_FirstRecordOfEachNonEmptyKey ==
  built =>
    /\ photos = Pick(Expanded(raw),
                     { x \in FirstOfKey(raw) : RecordKey(raw, x) # <<>> })
    /\ \A x, y \in DOMAIN photos :
         PhotoKeyOf(photos[x]) = PhotoKeyOf(photos[y]) => x = y
    /\ (/\ Len(raw) = 2
        /\ RecordKey(raw, 1) = RecordKey(raw, 2)
        /\ RecordKey(raw, 1) # <<>>) => Len(photos) = 1

\* C3 witness: two records of the same asset with different size parameters
\* were built into a catalog of exactly one entry, the first record.
C3_Witness ==
  /\ built
  /\ Len(raw) = 2
  /\ raw[1].primary # raw[2].primary
  /\ RecordKey(raw, 1) = <<"photo">>
  /\ RecordKey(raw, 2) = <<"photo">>
  /\ Len(photos) = 1
  /\ photos[1].id = raw[1].id

\* C4 (as claimed): on every image instance that stays mounted, sourceIndex
\* never decreases, never exceeds sources.length, and is left unchanged once
\* it equals sources.length.
C4_CursorMonotoneCapped ==
  [][\A inst \in DOMAIN cursor \cap DOMAIN cursor' :
       /\ cursor'[inst] >= cursor[inst]
       /\ cursor'[inst] <= Len(SourcesOf(inst, visiblePhotos', lightboxIndex'))
       /\ cursor[inst] = Len(SourcesOf(inst, visiblePhotos, lightboxIndex))
            => cursor'[inst] = cursor[inst]]_vars

\* C5 (as claimed): with sources bad1, bad2, good the image displays "good"
\* after two error events and still displays "good" after a third.
C5_GoodAfterThirdError ==
  (img.sources = <<"bad1", "bad2", "good">> /\ img.errors \in {2, 3})
    => ImgDisplayed = "good"

\* C5 (amended): with sources bad1, bad2, good the image displays "good"
\* after two error events; after the third it displays the placeholder made
\* from its alt text (sourceIndex = 3), and further errors change nothing.
C5_GoodThenPlaceholder ==
  img.sources = <<"bad1", "bad2", "good">> =>
    /\ img.errors = 2 => (img.i = 2 /\ ImgDisplayed = "good")
    /\ img.errors >= 3 =>
         (img.i = 3 /\ ImgDisplayed = svgPlaceholderDataUri(img.alt))

\* C5 witness: the three-source image has had its third error event.
C5_Witness ==
  /\ img.sources = <<"bad1", "bad2", "good">>
  /\ img.errors = 3

\* C6 (as claimed): an image instance that starts showing a photo (a newly
\* mounted instance, or the lightbox image switched to another photo by
\* prev, next or a new open) displays that photo's sources[0].
C6_FirstSourceOnNewPhoto ==
  [][/\ \A inst \in DOMAIN cursor' \ DOMAIN cursor : cursor'[inst] = 0
     /\ (lightboxIndex' # None /\ lightboxIndex' # lightboxIndex)
          => cursor'[LightboxImage] = 0]_vars

\* C7: an error event (any step that changes one mounted instance's
\* sourceIndex) leaves the sourceIndex and the displayed photo and source of
\* every other mounted instance unchanged.
C7_CursorsIsolated ==
  [][LET common == DOMAIN cursor \cap DOMAIN cursor'
         moved == { a \in common : cursor'[a] # cursor[a] }
     IN moved # {} =>
          /\ Cardinality(moved) = 1
          /\ \A b \in common \ moved :
               /\ PhotoOf(b, visiblePhotos', lightboxIndex')
                    = PhotoOf(b, visiblePhotos, lightboxIndex)
               /\ Displayed(b, visiblePhotos', lightboxIndex', cursor')
                    = Displayed(b, visiblePhotos, lightboxIndex, cursor)]_vars

\* C7 witness: the lightbox image and the gallery tile show the same photo;
\* the lightbox image has advanced on its errors and the tile has not moved.
C7_Witness ==
  /\ lightboxIndex = Open(0)
  /\ errors[LightboxImage] >= 1
  /\ cursor[LightboxImage] >= 1
  /\ errors[Tile(0)] = 0
  /\ cursor[Tile(0)] = 0

Placeholder(inst) ==
  cursor[inst] >= Len(SourcesOf(inst, visiblePhotos, lightboxIndex))

\* C8 (as claimed): an instance displays the placeholder after exactly
\* sources.length error events (not before), and once it displays the
\* placeholder it never displays a network source again.
C8_PlaceholderAfterAllFailAndStays ==
  [][\A inst \in DOMAIN cursor \cap DOMAIN cursor' :
       Len(SourcesOf(inst, visiblePhotos, lightboxIndex)) >= 1 =>
         /\ Placeholder(inst) <=>
              errors[inst] >= Len(SourcesOf(inst, visiblePhotos, lightboxIndex))
         /\ Placeholder(inst) => Placeholder(inst)']_vars

RECURSIVE NextTimes(_, _, _)
\* next applied k times to the lightbox index i of a slice of length n
NextTimes(k, i, n) == IF k = 0 THEN i ELSE NextTimes(k - 1, next(i, n), n)

RECURSIVE PrevTimes(_, _, _)
\* prev applied k times to the lightbox index i of a slice of length n
PrevTimes(k, i, n) == IF k = 0 THEN i ELSE PrevTimes(k - 1, prev(i, n), n)

\* C9: in a visible slice of length n >= 1, from any open index, next
\* applied n times and prev applied n times return to the index, and prev
\* after next and next after prev are the identity.
C9_CyclicNavigation ==
  lightboxIndex # None =>
    LET n == Len(visiblePhotos)
        i == lightboxIndex
    IN /\ NextTimes(n, i, n) = i
       /\ PrevTimes(n, i, n) = i
       /\ next(prev(i, n), n) = i
       /\ prev(next(i, n), n) = i

\* C9 witness: the lightbox is open in a slice longer than one page.
C9_Witness ==
  /\ lightboxIndex # None
  /\ Len(visiblePhotos) > PageSize

\* C10: every prev step moves Open(i) to (i - 1 + n) mod n and every next
\* step to (i + 1) mod n: prev from 0 lands on n - 1 (4 in a slice of 5),
\* next from n - 1 lands on 0, and with n = 1 both stay at 0.
C10_PrevNextFormula ==
  [][LET n == Len(visiblePhotos)
         i == lightboxIndex[1]
     IN /\ Prev =>
             /\ lightboxIndex' = Open((i - 1 + n) % n)
             /\ i = 0 => lightboxIndex' = Open(n - 1)
             /\ (i = 0 /\ n = 5) => lightboxIndex' = Open(4)
             /\ n = 1 => lightboxIndex' = Open(0)
        /\ Next_ =>
             /\ lightboxIndex' = Open((i + 1) % n)
             /\ i = n - 1 => lightboxIndex' = Open(0)
             /\ n = 1 => lightboxIndex' = Open(0)]_vars

\* C10 witness: the lightbox is at the last index of a slice of 5, where
\* prev from index 0 lands.
C10_Witness ==
  /\ Len(visiblePhotos) = 5
  /\ lightboxIndex = Open(4)

\* C11 (as claimed): for any catalog, also one shorter than a page,
\* visibleCount never decreases across any event and never exceeds
\* catalog.length.
C11_VisibleCountMonotoneBounded ==
  [][/\ visibleCount' >= visibleCount
     /\ visibleCount <= Len(photos)
     /\ visibleCount' <= Len(photos)]_vars

\* C12 (as claimed): loadMore is offered exactly where visibleCount <
\* catalog.length; taken, it sets visibleCount to min(visibleCount + 12,
\* catalog.length); so where it is no longer offered visibleCount equals
\* catalog.length.
C12_LoadMoreUntilCatalogLength ==
  [][/\ Ready => (ENABLED LoadMore <=> visibleCount < Len(photos))
     /\ LoadMore => visibleCount' = Min(visibleCount + 12, Len(photos))
     /\ (Ready /\ ~ENABLED LoadMore) => visibleCount = Len(photos)]_vars

\* C13: while the lightbox is open every keydown makes exactly one
\* transition: Escape closes it from any index, ArrowLeft moves it to
\* (i - 1 + n) mod n, ArrowRight to (i + 1) mod n, and any other key changes
\* nothing of the page.
C13_KeyBindings ==
  [][\A k \in Keys :
       (lightboxIndex # None /\ KeyDownOf(k)) =>
         LET n == Len(visiblePhotos)
             i == lightboxIndex[1]
         IN /\ k = "Escape" => lightboxIndex' = None
            /\ k = "ArrowLeft" => lightboxIndex' = Open((i - 1 + n) % n)
            /\ k = "ArrowRight" => lightboxIndex' = Open((i + 1) % n)
            /\ k \notin {"Escape", "ArrowLeft", "ArrowRight"} =>
                 UNCHANGED <<pageVars, lang, localStorage, listeners>>
            /\ UNCHANGED <<photos, visibleCount, lang, localStorage>>]_vars

\* C13 witness: the lightbox is open in the middle of a slice of at least
\* three photos with its listener installed, so that Escape, ArrowLeft and
\* ArrowRight lead to three different states.
C13_Witness ==
  /\ Ready
  /\ Len(visiblePhotos) >= 3
  /\ lightboxIndex = Open(1)
  /\ listeners = 1

\* C14: the number of installed keydown listeners is exactly 1 while the
\* lightbox is open and 0 while it is closed, in every reachable state.
C14_OneListenerWhileOpen ==
  listeners = (IF lightboxIndex # None THEN 1 ELSE 0)

\* C14 witness: the lightbox is open after the page has re-rendered around
\* it (a language toggle and a loadMore), and one listener is installed.
C14_Witness ==
  /\ lightboxIndex # None
  /\ lang = "fa"
  /\ visibleCount > InitialVisible
  /\ listeners = 1

\* C15: with a storage whose get and set succeed, when a session whose
\* language was "fa" is reloaded, the language once the startup has settled
\* is "fa", with no user action, and the stored value is "fa".
C15_LanguageRestoredAfterReload ==
  [][(/\ boot.from = "fa"
      /\ throws = {}
      /\ boot.phase # "ready"
      /\ boot'.phase = "ready") => (lang' = "fa" /\ localStorage' = "fa")]_vars

\* C15 witness: the session was reloaded from language "fa" and its startup
\* has just settled, by the render of the queued setLang("fa").
C15_Witness ==
  /\ boot = [phase |-> "ready", queued |-> <<>>, from |-> "fa"]
  /\ throws = {}
  /\ lang = "fa"
  /\ localStorage = "fa"
  /\ io = <<"set">>
  /\ lightboxIndex = None

\* the number of calls of operation op in the log
Calls(log, op) == Cardinality({ x \in DOMAIN log : log[x] = op })

\* C16 (as claimed): the storage is read exactly once at startup, giving
\* "en" when the stored value is absent or invalid, and it is written
\* exactly once per language change and at no other time.
C16_ReadOnceWritePerChange ==
  [][IF boot'.phase = "rendered"
     THEN io' = <<>>
     ELSE /\ Calls(io', "get") = (IF boot.phase = "rendered" THEN 1 ELSE 0)
          /\ Calls(io', "set") = (IF lang' # lang THEN 1 ELSE 0)
          /\ (boot.phase = "rendered" /\ localStorage \notin Langs)
               => (boot'.phase = "ready" /\ lang' = "en")]_vars

\* C17 (as claimed): when get and/or set throws on every call, the page
\* starts with language "en", every toggle flips the language, and the
\* gallery state is unaffected.
C17_ThrowingStorageStartsEn ==
  [][throws # {} =>
       /\ (boot.phase # "ready" /\ boot'.phase = "ready") => lang' = "en"
       /\ ToggleLang => (lang' \in Langs /\ lang' # lang)
       /\ (boot'.phase # "rendered" /\ io' # <<>>) => UNCHANGED pageVars]_vars

\* C17 (amended): when get and/or set throws on every call, every handler
\* completes; the page starts with "en" when get throws, and with the stored
\* language ("en" when it is absent or invalid) when only set throws; every
\* toggle flips the language between "en" and "fa"; a throwing set leaves the
\* stored value alone; the gallery state is unaffected.
C17_ThrowingStorageSwallowed ==
  [][throws # {} =>
       /\ (boot.phase # "ready" /\ boot'.phase = "ready") =>
            lang' = (IF "get" \notin throws /\ localStorage \in Langs
                     THEN localStorage ELSE "en")
       /\ Ready => ENABLED ToggleLang
       /\ ToggleLang => (lang' \in Langs /\ lang' # lang)
       /\ "set" \in throws => localStorage' = localStorage
       /\ (boot'.phase # "rendered" /\ io' # <<>>) => UNCHANGED pageVars]_vars

\* C17 witness: get and set throw, nothing is stored, the language has been
\* toggled to "fa" and the lightbox opened before the toggle is still open.
C17_Witness ==
  /\ throws = {"get", "set"}
  /\ localStorage = Absent
  /\ Ready
  /\ lang = "fa"
  /\ io = <<"set">>
  /\ lightboxIndex # None

\* the URL string without its query: the same scheme, host, path and
\* fragment
WithoutQuery(url) ==
  LET q == FirstIn(url, {"?"})
  IN IF q = 0 THEN url
     ELSE SubSeq(url, 1, q - 1)
            \o (IF url[Len(url)] = Frag THEN <<Frag>> ELSE <<>>)

\* C18 (as claimed): for every URL u and every target width w the key of
\* the sized variant equals the key of u; hence every element of
\* expandSources(u) has the key of u, and two URLs that differ only in their
\* query string have the same key.
C18_KeyInvariantUnderSizing ==
  (key.done /\ expanded.done) =>
    /\ \A w \in AllWidths :
         /\ photoKeyFromUrl(smartUrlSizing(input, w)) = key.value
         /\ photoKeyFromUrl(withMarriottSizing(input, w)) = key.value
    /\ \A x \in DOMAIN expanded.sources :
         photoKeyFromUrl(expanded.sources[x]) = key.value
    /\ \A x \in DOMAIN expanded.sourcesAlt :
         photoKeyFromUrl(expanded.sourcesAlt[x]) = key.value
    /\ photoKeyFromUrl(WithoutQuery(input)) = key.value

\* C19 (as claimed): every photo of the built catalog has a non-empty
\* sources sequence whose last element is its record's canonical URL, for
\* every record list, also with empty, malformed or already sized URLs.
C19_CatalogSourcesEndWithCanonical ==
  built =>
    \A x \in DOMAIN photos :
      /\ photos[x].sources # <<>>
      /\ \A r \in DOMAIN raw :
           raw[r].id = photos[x].id =>
             photos[x].sources[Len(photos[x].sources)] = raw[r].primary

\* the URL string matches no sizing convention: it does not parse, or its
\* host or its path is not one the sizing rules know
Unrecognized(url) ==
  LET u == ParseURL(url)
  IN \/ ~u.ok
     \/ ~IsMarriottHost(u.hostname)
     \/ ~IsImageServicePath(u.pathname) /\ ~IsRenditionsPath(u.pathname)

\* C20 (as claimed): expandSources returns exactly the one-element
\* sequence [url] whenever the URL fails to parse or its host or path
\* matches no recognized sizing convention.
C20_UnrecognizedYieldsInputOnly ==
  (expanded.done /\ Unrecognized(input)) =>
    /\ expanded.sources = <<input>>
    /\ expanded.sourcesAlt = <<input>>

Distinct(s) == \A x, y \in DOMAIN s : x # y => s[x] # s[y]

\* the non-empty elements of c that no earlier index of c holds, in order
FirstOccurrences(c) ==
  LET F[x \in 0..Len(c)] ==
        IF x = 0 THEN <<>>
        ELSE IF c[x] # <<>> /\ \A y \in 1..(x - 1) : c[y] # c[x]
          THEN Append(F[x - 1], c[x])
          ELSE F[x - 1]
  IN F[Len(c)]

(***************************************************************************)
(* C21  The result of expandSources holds no two equal strings, also where *)
(* two width rewrites, or a width rewrite and the canonical URL, coincide; *)
(* each string stands where it was first pushed: the result is the         *)
(* sequence of the first occurrences of the non-empty candidates.          *)
(***************************************************************************)
C21_NoDuplicatesFirstKept ==
  expanded.done =>
    /\ Distinct(expanded.sources)
    /\ Distinct(expanded.sourcesAlt)
    /\ LET c == Candidates(input) IN expanded.sources = FirstOccurrences(c)
    /\ LET c == CandidatesAlt(input)
       IN expanded.sourcesAlt = FirstOccurrences(c)

\* a recognised URL that already carries the 1400 rewrite: the rewrite and
\* the canonical URL coincide, and the URL keeps the third place
C21_Witness ==
  /\ expanded.done
  /\ Candidates(input)[3] = input
  /\ Candidates(input)[1] # input
  /\ Len(expanded.sources) = Len(Widths)
  /\ expanded.sources[3] = input

WidthRewritten(url, candidate) ==
  \E w \in AllWidths :
    candidate = url \o <<"?", "wid=", ToString(w), "&", "fit=", "constrain">>

(***************************************************************************)
(* C22  As stated: expanding                                               *)
(* "https://cache.example.com/is/image/prod/photo-123:Wide-Hor" yields at  *)
(* least two candidates, the last equal to the input and every earlier one *)
(* with a rewritten width parameter.                                       *)
(***************************************************************************)
C22_ExampleHostExpands ==
  (expanded.done /\ input = ScenarioUrl("cache.example.com")) =>
    /\ Len(expanded.sources) >= 2
    /\ expanded.sources[Len(expanded.sources)] = input
    /\ \A x \in 1..(Len(expanded.sources) - 1) :
         WidthRewritten(input, expanded.sources[x])

SizedByWidths(url, widths) ==
  [x \in 1..(Len(widths) + 1) |->
     IF x <= Len(widths)
     THEN url \o <<"?", "wid=", ToString(widths[x]), "&", "fit=", "constrain">>
     ELSE url]

(***************************************************************************)
(* C22  As the code has it: the same path on cache.marriott.com, the one   *)
(* host the sizing rules recognise, yields one candidate for each width in *)
(* the order of the widths, each the input with wid and fit=constrain      *)
(* added, and the input last; on cache.example.com the result is the       *)
(* input alone.                                                            *)
(***************************************************************************)
C22_RecognisedHostExpands ==
  expanded.done =>
    /\ input = ScenarioUrl("cache.marriott.com") =>
         /\ expanded.sources = SizedByWidths(input, Widths)
         /\ expanded.sourcesAlt = SizedByWidths(input, WidthsAlt)
    /\ input = ScenarioUrl("cache.example.com") =>
         /\ expanded.sources = <<input>>
         /\ expanded.sourcesAlt = <<input>>

C22_Witness ==
  /\ expanded.done
  /\ input = ScenarioUrl("cache.marriott.com")
  /\ Len(expanded.sources) = Len(Widths) + 1
  /\ Len(expanded.sourcesAlt) = Len(WidthsAlt) + 1

KeyFails(url) ==
  \/ ~ParseURL(url).ok
  \/ DecodeThrows(ParseURL(url).pathname)

(***************************************************************************)
(* C23  photoKeyFromUrl throws for no input; where new URL() or            *)
(* decodeURIComponent throws, it returns the input cut at its first "?"    *)
(* and lower-cased.                                                        *)
(***************************************************************************)
C23_KeyNeverThrows ==
  key.done =>
    /\ key.value # Thrown
    /\ KeyFails(input) => key.value = toLowerCase(Before(input, {"?"}))

\* a URL that parses, whose path does not decode, with an upper-case host
\* and a query: the key is the lower-cased text before the "?"
C23_Witness ==
  /\ key.done
  /\ ParseURL(input).ok
  /\ DecodeThrows(ParseURL(input).pathname)
  /\ "?" \in Range(input)
  /\ key.value # Before(input, {"?"})
  /\ key.value = toLowerCase(Before(input, {"?"}))

\* ids given to scrollToId: those of the links, and some no element has
ProbeIds == LinkIds \cup {"top", "nowhere", "Gallery", ""}

(***************************************************************************)
(* C24  An invalid navigation target changes nothing.  Every step that     *)
(* opens the lightbox opens it at an index i with                          *)
(* 0 <= i < visiblePhotos.length; scrollToId with an id no element has     *)
(* returns without a scroll and without touching the fragment; a page      *)
(* opened on such a fragment mounts without a scroll or a requested        *)
(* frame; and every scroll that does happen goes to an existing element.   *)
(***************************************************************************)
C24_InvalidTargetsIgnored ==
  /\ [](\A id \in ProbeIds \ DomIds : scrollToId(nav, id) = nav)
  /\ [](/\ nav.scrolledTo \in DomIds \cup {NoScroll}
        /\ nav.frame \in DomIds \cup {NoScroll})
  /\ [][(lightboxIndex = None /\ lightboxIndex' # None) =>
          \E i \in 0..(Len(visiblePhotos) - 1) : lightboxIndex' = Open(i)]_vars
  /\ [][(/\ boot.phase = "rendered"
          /\ boot'.phase # "rendered"
          /\ nav.hash \notin DomIds) => nav' = nav]_vars
  /\ [][nav'.hash # nav.hash => nav'.hash = nav'.scrolledTo]_vars

\* the page was opened on "#nowhere" and has settled: the fragment is as it
\* was, nothing was scrolled, and a thumbnail has opened the lightbox
C24_Witness ==
  /\ Ready
  /\ nav = [hash |-> "nowhere", scrolledTo |-> NoScroll, frame |-> NoScroll]
  /\ lightboxIndex = Open(4)
  /\ Len(visiblePhotos) = 5

SizingNames ==
  {"wid=", "fit=", "downsize=", "output-quality=", "interpolation="}

Recognised(url) ==
  /\ ParseURL(url).ok
  /\ IsMarriottHost(ParseURL(url).hostname)
  /\ \/ IsImageServicePath(ParseURL(url).pathname)
     \/ IsRenditionsPath(ParseURL(url).pathname)

NoSizing(url) == \A x \in DOMAIN url : url[x] \notin SizingNames

\* the widths a candidate names, as the value of wid or of downsize
WidParam(c) ==
  { w \in AllWidths :
      \E x \in 1..(Len(c) - 1) : c[x] = "wid=" /\ c[x + 1] = ToString(w) }
DownsizeParam(c) ==
  { w \in AllWidths :
      \E x \in 1..(Len(c) - 1) : c[x] = "downsize=" /\ c[x + 1] = DownsizeEnc(w) }

\* result s is one variant for each of the widths, in their order, then url
VariantsThenCanonical(s, url, widths) ==
  /\ Len(s) = Len(widths) + 1
  /\ Distinct(s)
  /\ s[Len(s)] = url
  /\ \A x \in 1..Len(widths) :
       IF IsImageServicePath(ParseURL(url).pathname)
       THEN WidParam(s[x]) = {widths[x]} /\ DownsizeParam(s[x]) = {}
       ELSE DownsizeParam(s[x]) = {widths[x]} /\ WidParam(s[x]) = {}

KeyPath(url) == toLowerCase(decodeURIComponent(ParseURL(url).pathname))

HasContentDir(path) == \E x \in DOMAIN path : path[x] = "/content/dam/"

\* rule (b): the final path component, cut at the first "?"
RuleB(path) == Before(AfterLastSlash(path), QuestionToks)

(***************************************************************************)
(* C26  photoKeyFromUrl applies the first matching rule only.  A path with *)
(* the image-service segment is keyed by rule (a), the final path          *)
(* component of what follows the segment, cut at the first ":" and "?",    *)
(* also where it holds the content-asset directory; otherwise a path with  *)
(* the content-asset directory is keyed by its final path component,       *)
(* whatever the host; otherwise the key is the hostname followed by the    *)
(* decoded, lower-cased path.                                              *)
(***************************************************************************)
C26_FirstMatchingRuleOnly ==
  (key.done /\ ~KeyFails(input)) =>
    LET path == KeyPath(input)
        \* rule (a): what follows the first "/is/image/", its final path
        \* component, cut at the first ":" and the first "?"
        after == SubSeq(path, FirstIn(path, {"/is/image/"}) + 1, Len(path))
        ruleA == Before(Before(AfterLastSlash(after), ColonToks), QuestionToks)
    IN key.value =
         IF IsImageServicePath(path) THEN ruleA
         ELSE IF HasContentDir(path) THEN RuleB(path)
         ELSE <<ParseURL(input).hostname>> \o path

(***************************************************************************)
(* C27  The gallery transitions touch only their own variable: a step that *)
(* changes lightboxIndex (open, close, prev, next, a key) leaves           *)
(* visibleCount as it is, a step that changes visibleCount (loadMore)      *)
(* leaves lightboxIndex as it is, and prev or next while the lightbox is   *)
(* closed, from the handlers or from the arrow keys, leave it closed.      *)
(***************************************************************************)
C27_TransitionsFrame ==
  /\ [][lightboxIndex' # lightboxIndex => visibleCount' = visibleCount]_vars
  /\ [][visibleCount' # visibleCount =>
          /\ lightboxIndex' = lightboxIndex
          /\ visibleCount' = Min(visibleCount + PageSize, Len(photos))]_vars
  /\ [](/\ prev(None, Len(visiblePhotos)) = None
        /\ next(None, Len(visiblePhotos)) = None)
  /\ [][(lightboxIndex = None /\ lightboxIndex' # None) =>
          ~(KeyDown \/ Prev \/ Next_)]_vars

\* more photos were loaded and the lightbox is open on one of the new ones
C27_Witness ==
  /\ visibleCount = Len(photos)
  /\ visibleCount > InitialVisible
  /\ lightboxIndex = Open(InitialVisible)
  /\ listeners = 1

(***************************************************************************)
(* C28  A language toggle changes only the language and the stored         *)
(* preference: the catalog, visibleCount, lightboxIndex and the cursor of  *)
(* every image instance are the same before and after it.  The language   *)
(* is always "en" or "fa", a toggle sets the other one, and two toggles in *)
(* a row restore the language.                                             *)
(***************************************************************************)
C28_ToggleChangesOnlyLanguage ==
  /\ [](lang \in Langs /\ toggled(lang) \in Langs \ {lang}
        /\ toggled(toggled(lang)) = lang)
  /\ [][lang' # lang =>
          /\ lang' = toggled(lang)
          /\ UNCHANGED <<photos, visibleCount, lightboxIndex, cursor>>]_vars
  /\ [][ToggleLang => lang' = toggled(lang)]_vars

\* the last step was a toggle back to "en", with more photos loaded, the
\* lightbox open and an image past its first source
C28_Witness ==
  /\ Ready
  /\ lang = "en"
  /\ io = <<"set">>
  /\ visibleCount > InitialVisible
  /\ lightboxIndex # None
  /\ \E inst \in DOMAIN cursor : cursor[inst] > 0

(***************************************************************************)
(* C29  During startup a valid stored preference is not overwritten with a *)
(* different value: no step from the mount of the page to the end of its   *)
(* startup changes a stored "en" or "fa".                                  *)
(***************************************************************************)
C29_StoredPreferenceKeptAtStartup ==
  [][(boot.phase # "ready" /\ localStorage \in Langs) =>
       localStorage' = localStorage]_vars

(***************************************************************************)
(* C30  With the record lists of the two files no record is dropped by the *)
(* deduplication.  The catalog of CaresseInvite.tsx has 12 entries, so     *)
(* visibleCount, 12 from the start, equals its length and loadMore is      *)
(* never offered; the catalog of the other variant has 17, so loadMore is  *)
(* offered exactly once and sets visibleCount to 17.  In both the hero     *)
(* shows the photo at index 0, the second hero the one at index 6, and the *)
(* featured thumbnails those at 2..4, each opening the lightbox at the     *)
(* index of its photo.                                                     *)
(***************************************************************************)
C30_BakedListsKeepEveryRecord ==
  /\ [](/\ Len(photos) = Len(raw)
        /\ \A x \in DOMAIN raw : photos[x].id = raw[x].id)
  /\ [](raw = BakedRaw =>
          /\ Len(photos) = 12
          /\ visibleCount = Len(photos)
          /\ ~ENABLED LoadMore)
  /\ [](raw = BakedRawAlt =>
          /\ Len(photos) = 17
          /\ visibleCount \in {12, 17}
          /\ (ENABLED LoadMore) <=> (visibleCount = 12))
  /\ [][visibleCount' # visibleCount => visibleCount' = 17]_vars
  /\ [](/\ PhotoOf(Hero, visiblePhotos, lightboxIndex) = 0
        /\ PhotoOf(HeroB, visiblePhotos, lightboxIndex) = 6
        /\ \A k \in 2..4 :
             /\ Thumb(k) \in DOMAIN cursor
             /\ SourcesOf(Thumb(k), visiblePhotos, lightboxIndex)
                  = photos[k + 1].sources)
  /\ [][(lightboxIndex = None /\ OpenThumb) =>
          \E k \in 2..4 : lightboxIndex' = Open(k)]_vars

\* the other variant after its one loadMore, the lightbox opened from the
\* last featured thumbnail
C30_Witness ==
  /\ raw = BakedRawAlt
  /\ visibleCount = 17
  /\ Len(visiblePhotos) = 17
  /\ lightboxIndex = Open(4)

====
